---- MODULE Spec2Model ----
(***************************************************************************)
(* Model of src/src/stat.go: the recursive stat command of the drive       *)
(* client.  statfn resolves each source and calls stat; stat renders one   *)
(* file, and for a folder with remaining depth drains the paginated        *)
(* listing of its children (two unbuffered channels fed by one producer    *)
(* goroutine), optionally sorts them and recurses.                         *)
(*                                                                         *)
(* Strings whose content matters (paths, names, checksums) are tuples of   *)
(* one-character strings, so that Clean, TrimPrefix and the %32s padding   *)
(* are computed and not assumed.                                           *)
(***************************************************************************)
EXTENDS Integers, Sequences, FiniteSets, TLC

\* ------------------------------------------------------------------ bounds

\* Largest finite -depth option tried (the option also takes -1, unlimited).
MaxDepth == 2

\* How many nil values one producer may send on its error channel.
MaxNil == 1

\* ----------------------------------------------------------------- strings

Alphabet == <<" ", ".", "/", "a", "b", "c", "d", "e", "f", "k", "r", "s", "u", "v", "x", "y", "z">>

\* Byte order of the characters used, as Go compares strings.
Ord(c) == CHOOSE i \in 1..Len(Alphabet) : Alphabet[i] = c

RECURSIVE StrLess(_, _)
StrLess(a, b) ==
  IF Len(b) = 0 THEN FALSE
  ELSE IF Len(a) = 0 THEN TRUE
  ELSE IF Ord(Head(a)) < Ord(Head(b)) THEN TRUE
  ELSE IF Ord(Head(a)) > Ord(Head(b)) THEN FALSE
  ELSE StrLess(Tail(a), Tail(b))

\* strings.TrimPrefix(s, "/")
TrimPrefix(s) == IF Len(s) >= 1 /\ Head(s) = "/" THEN Tail(s) ELSE s

\* The %32s verb: right-justified in a field Md5Width wide, never truncated.
Md5Width == 32

RECURSIVE PadLeft(_, _)
PadLeft(s, w) == IF Len(s) >= w THEN s ELSE PadLeft(<<" ">> \o s, w)

\* The elements of a path between separators (empty elements kept).
RECURSIVE Split(_, _)
Split(p, cur) ==
  IF Len(p) = 0 THEN <<cur>>
  ELSE IF Head(p) = "/" THEN <<cur>> \o Split(Tail(p), <<>>)
  ELSE Split(Tail(p), Append(cur, Head(p)))

\* Clean's element pass: drops "" and ".", resolves "..".
RECURSIVE CleanElems(_, _, _)
CleanElems(elems, acc, rooted) ==
  IF Len(elems) = 0 THEN acc
  ELSE LET e == Head(elems) IN
    IF e = <<>> \/ e = <<".">> THEN CleanElems(Tail(elems), acc, rooted)
    ELSE IF e = <<".", ".">> THEN
      IF Len(acc) > 0 /\ acc[Len(acc)] # <<".", ".">>
        THEN CleanElems(Tail(elems), SubSeq(acc, 1, Len(acc) - 1), rooted)
      ELSE IF rooted THEN CleanElems(Tail(elems), acc, rooted)
      ELSE CleanElems(Tail(elems), Append(acc, e), rooted)
    ELSE CleanElems(Tail(elems), Append(acc, e), rooted)

RECURSIVE JoinElems(_)
JoinElems(elems) ==
  IF Len(elems) = 0 THEN <<>>
  ELSE IF Len(elems) = 1 THEN Head(elems)
  ELSE Head(elems) \o <<"/">> \o JoinElems(Tail(elems))

\* filepath.Clean
Clean(p) ==
  LET rooted == Len(p) >= 1 /\ Head(p) = "/"
      body == JoinElems(CleanElems(Split(p, <<>>), <<>>, rooted))
  IN IF rooted THEN <<"/">> \o body
     ELSE IF body = <<>> THEN <<".">> ELSE body

\* ChildPath as it would be without the call of filepath.Clean.
ChildPath_NoClean(relToRootPath, name) == relToRootPath \o <<"/">> \o name

\* The display path stat passes for a child.
ChildPath(relToRootPath, name) == Clean(relToRootPath \o <<"/">> \o name)

\* ------------------------------------------------------------- remote store

\* The remote files the resolver and the listing can return (type File:
\* the fields stat and the formatters branch on or print).
Files ==
  [ idA |-> [Id |-> "idA", Name |-> <<"a">>, IsDir |-> TRUE,  Md5Checksum |-> <<>>,
             Description |-> "", OriginalFilename |-> <<"a">>, Copyable |-> FALSE, Labels |-> FALSE],
    idB |-> [Id |-> "idB", Name |-> <<"b">>, IsDir |-> FALSE,
             Md5Checksum |-> <<"d", "e", "a", "d", "b", "e", "e", "f">>,
             Description |-> "", OriginalFilename |-> <<"b">>, Copyable |-> TRUE, Labels |-> FALSE],
    idS |-> [Id |-> "idS", Name |-> <<"s">>, IsDir |-> TRUE,  Md5Checksum |-> <<>>,
             Description |-> "shared", OriginalFilename |-> <<"s">>, Copyable |-> TRUE, Labels |-> TRUE],
    idX |-> [Id |-> "idX", Name |-> <<"x">>, IsDir |-> FALSE, Md5Checksum |-> <<"b">>,
             Description |-> "", OriginalFilename |-> <<"x", "x">>, Copyable |-> FALSE, Labels |-> TRUE],
    idY |-> [Id |-> "idY", Name |-> <<"y">>, IsDir |-> TRUE,  Md5Checksum |-> <<>>,
             Description |-> "", OriginalFilename |-> <<"y", "y">>, Copyable |-> FALSE, Labels |-> FALSE],
    idZ |-> [Id |-> "idZ", Name |-> <<"z">>, IsDir |-> FALSE, Md5Checksum |-> <<"a">>,
             Description |-> "", OriginalFilename |-> <<"z">>, Copyable |-> TRUE, Labels |-> FALSE],
    idV |-> [Id |-> "idV", Name |-> <<"v">>, IsDir |-> TRUE,  Md5Checksum |-> <<>>,
             Description |-> "", OriginalFilename |-> <<"v">>, Copyable |-> FALSE, Labels |-> FALSE],
    idU |-> [Id |-> "idU", Name |-> <<"u">>, IsDir |-> FALSE, Md5Checksum |-> <<>>,
             Description |-> "doc", OriginalFilename |-> <<"u">>, Copyable |-> TRUE, Labels |-> FALSE],
    idK |-> [Id |-> "idK", Name |-> <<"k">>, IsDir |-> TRUE,  Md5Checksum |-> <<"f">>,
             Description |-> "", OriginalFilename |-> <<"k">>, Copyable |-> TRUE, Labels |-> TRUE],
    idR |-> [Id |-> "idR", Name |-> <<"r">>, IsDir |-> TRUE,  Md5Checksum |-> <<>>,
             Description |-> "", OriginalFilename |-> <<"r">>, Copyable |-> FALSE, Labels |-> FALSE] ]

FileIds == DOMAIN Files

\* The children of each folder, in the order the backend lists them.
Listing ==
  [ idA |-> <<"idB">>, idB |-> <<>>, idS |-> <<"idX", "idY", "idZ">>, idX |-> <<>>,
    idY |-> <<"idV">>, idZ |-> <<>>, idV |-> <<"idU">>, idU |-> <<>>, idK |-> <<>>,
    idR |-> <<"idK">> ]

Reverse(s) == [i \in 1..Len(s) |-> s[Len(s) + 1 - i]]

\* The permission entries of each file.
PermAnn == [Name |-> "ann", EmailAddress |-> "ann@x", Role |-> "owner", Type |-> "user"]
PermBob == [Name |-> "bob", EmailAddress |-> "bob@x", Role |-> "reader", Type |-> "group"]

Permissions ==
  [ idA |-> <<PermAnn>>, idB |-> <<>>, idS |-> <<PermAnn, PermBob>>, idX |-> <<PermBob>>,
    idY |-> <<>>, idZ |-> <<>>, idV |-> <<>>, idU |-> <<>>, idK |-> <<>>, idR |-> <<>> ]

\* Source strings, by path and by id.
SrcA == <<"/", "a">>
SrcS == <<"s">>
SrcK == <<"k">>
SrcRoot == <<"/">>
SrcY == <<"s", "/", "y">>
SrcBad1 == <<"b", "a", "d", "1">>
SrcBad2 == <<"b", "a", "d", "2">>
SrcIdA == <<"i", "d", "A">>

\* ------------------------------------------------------------------ errors

Nil == [kind |-> "nil", of |-> <<>>, code |-> 0]
ResolveErr(s) == [kind |-> "resolve", of |-> s, code |-> 4]
PermErr(id) == [kind |-> "perm", of |-> <<id>>, code |-> 3]
ListErr(id) == [kind |-> "list", of |-> <<id>>, code |-> 5]

\* g.rem.FindByPath: the file a path names, or an error.
FindByPath(s) ==
  IF s = SrcA THEN [f |-> "idA", err |-> Nil]
  ELSE IF s = SrcS THEN [f |-> "idS", err |-> Nil]
  ELSE IF s = SrcK THEN [f |-> "idK", err |-> Nil]
  ELSE IF s = SrcRoot THEN [f |-> "idR", err |-> Nil]
  ELSE IF s = SrcY THEN [f |-> "idY", err |-> Nil]
  ELSE [f |-> "", err |-> ResolveErr(s)]

\* g.rem.FindById: the file an id names, or an error.
FindById(s) ==
  IF s = SrcIdA THEN [f |-> "idA", err |-> Nil]
  ELSE [f |-> "", err |-> ResolveErr(s)]

\* The composite error statfn accumulates: the messages so far and one
\* retained status code.  No message means nil.
NoErr == [msgs |-> <<>>, code |-> 0]

\* fmt.Sprintf("%s: %s err: %v\n", fname, src, fErr)
Msg(fname, s, e) == [fname |-> fname, src |-> s, err |-> e]

\* reComposeError: the earlier messages followed by the new one.
reComposeError(e, msg) == [e EXCEPT !.msgs = Append(@, msg)]

\* copyErrStatusCode: the composite takes the status code of the new error.
copyErrStatusCode(e, from) == [e EXCEPT !.code = from.code]

\* rootLike: the configured path is the root of the store.
rootLike(p) == p = <<>> \/ p = <<"/">>

\* ------------------------------------------------------------------- state

VARIABLES
  fname,      \* "stat" or "statById": which entry point called statfn
  opts,       \* g.opts: Sources, Md5sum, CsvOutput, Depth, Path
  rem,        \* how the remote behaves in this run (see Remotes)
  firstLine,  \* the package variable guarding the CSV header
  spc,        \* where statfn is: "loop", "call", "check", "done"
  si,         \* index into opts.Sources of the source statfn is at
  src,        \* statfn's loop variable src, as passed to stat
  fErr,       \* what the last top-level stat call returned
  err,        \* statfn's composite error
  stack,      \* the active stat calls, outermost first
  calls,      \* every stat call made so far: its arguments, its caller, the
              \* stream it opened and its result once returned
  prod,       \* one producer per PageStream opened so far
  out         \* everything written to g.log, in order

vars == <<fname, opts, rem, firstLine, spc, si, src, fErr, err, stack, calls, prod, out>>

\* The invocations tried: an entry point with its list of sources.
Invocations ==
  { [fname |-> "stat", Sources |-> <<SrcA>>],
    [fname |-> "stat", Sources |-> <<SrcK>>],
    [fname |-> "stat", Sources |-> <<SrcRoot>>],
    [fname |-> "stat", Sources |-> <<SrcY>>],
    [fname |-> "stat", Sources |-> <<SrcS, SrcBad1, SrcBad2>>],
    [fname |-> "stat", Sources |-> <<SrcBad1, SrcA, SrcBad2>>],
    [fname |-> "stat", Sources |-> <<SrcS, SrcA>>],
    [fname |-> "statById", Sources |-> <<SrcIdA, SrcBad1>>] }

Depths == {-1} \cup 0..MaxDepth

Paths == {<<"/">>, <<"/", "d">>}

\* The behaviours of the remote tried: the files whose permission listing
\* fails, the folder whose listing may report an error, the folder whose
\* listing may send nil on the error channel, and whether listings arrive in
\* reverse order.
Remotes ==
  [permFail : {{}, {"idS"}, {"idY"}}, failDir : {"", "idS", "idY"},
   nilDir : {"", "idS"}, rev : BOOLEAN]

Init ==
  /\ \E inv \in Invocations, m \in BOOLEAN, c \in BOOLEAN, d \in Depths, p \in Paths :
       /\ fname = inv.fname
       /\ opts = [Sources |-> inv.Sources, Md5sum |-> m, CsvOutput |-> c, Depth |-> d, Path |-> p]
  /\ rem \in Remotes
  /\ firstLine = TRUE
  /\ spc = "loop"
  /\ si = 1
  /\ src = <<>>
  /\ fErr = Nil
  /\ err = NoErr
  /\ stack = <<>>
  /\ calls = <<>>
  /\ prod = <<>>
  /\ out = <<>>

\* --------------------------------------------------------------- rendering

Line(cid, kind, key, text) == [cid |-> cid, kind |-> kind, key |-> key, text |-> text]

\* Md5Line as it would be if stat tested the kind of file, not the checksum.
Md5Line_ByKind(cid, relToRootPath, file) ==
  IF ~file.IsDir
    THEN <<Line(cid, "md5", "",
                PadLeft(file.Md5Checksum, Md5Width) \o <<" ", " ">> \o TrimPrefix(relToRootPath))>>
    ELSE <<>>

\* stat's checksum line: "%32s  %s\n" of the checksum and the trimmed path.
Md5Line(cid, relToRootPath, file) ==
  IF file.Md5Checksum # <<>>
    THEN <<Line(cid, "md5", "",
                PadLeft(file.Md5Checksum, Md5Width) \o <<" ", " ">> \o TrimPrefix(relToRootPath))>>
    ELSE <<>>

DirType(file) == IF file.IsDir THEN "folder" ELSE "file"

BoolStr(b) == IF b THEN "true" ELSE "false"

\* prettyFilePermission: one CSV row for one permission of the file.
prettyFilePermission(cid, perm, file) ==
  Line(cid, "csvRow", perm.Name,
       file.Name \o <<DirType(file), perm.Name, perm.EmailAddress, perm.Role, perm.Type>>)

\* prettyPermission: the block of one permission in verbose mode.
prettyPermission(cid, perm) ==
  Line(cid, "perm", perm.Name, <<perm.EmailAddress, perm.Role, perm.Type>>)

\* prettyFileStat: the path header and the key/value rows of one file.
prettyFileStat(cid, relToRootPath, file) ==
  LET kv(k, v) == Line(cid, "kv", k, v)
      fixed == << kv("Filename", file.Name), kv("FileId", <<file.Id>>), kv("Bytes", <<>>),
                  kv("Size", <<>>), kv("QuotaBytesUsed", <<>>), kv("DirType", <<DirType(file)>>),
                  kv("VersionNumber", <<>>), kv("MimeType", <<>>), kv("Etag", <<>>),
                  kv("ModTime", <<>>), kv("LastViewedByMe", <<>>), kv("Shared", <<>>),
                  kv("Owners", <<>>), kv("LastModifyingUsername", <<>>) >>
      desc == IF file.Description # "" THEN <<kv("Description", <<file.Description>>)>> ELSE <<>>
      orig == IF file.Name # file.OriginalFilename
                THEN <<kv("OriginalFilename", file.OriginalFilename)>> ELSE <<>>
      sum == IF ~file.IsDir
               THEN <<kv("Md5Checksum", file.Md5Checksum), kv("Copyable", <<BoolStr(file.Copyable)>>)>>
               ELSE <<>>
      labels == IF file.Labels
                  THEN <<kv("Starred", <<>>), kv("Viewed", <<>>), kv("Trashed", <<>>),
                         kv("ViewersCanDownload", <<>>)>>
                  ELSE <<>>
  IN <<Line(cid, "path", "", relToRootPath)>> \o fixed \o desc \o orig \o sum \o labels

\* g.rem.listPermissions: the entries of a file, or an error together with
\* the entries fetched before the failure (here the first one, if any).
listPermissions(id) ==
  IF id \in rem.permFail
    THEN [perms |-> SubSeq(Permissions[id], 1, IF Permissions[id] = <<>> THEN 0 ELSE 1),
          err |-> PermErr(id)]
  ELSE [perms |-> Permissions[id], err |-> Nil]

CsvHeader(cid) == Line(cid, "csvHeader", "", <<>>)

\* ----------------------------------------------------------------- sorting

Md5Key == "md5"
NameKey == "name"

KeyOf(id, key) == IF key = Md5Key THEN Files[id].Md5Checksum ELSE Files[id].Name

\* a sorts before b under the keys, the first key deciding first.
RECURSIVE LessBy(_, _, _)
LessBy(a, b, keys) ==
  IF Len(keys) = 0 THEN FALSE
  ELSE IF StrLess(KeyOf(a, Head(keys)), KeyOf(b, Head(keys))) THEN TRUE
  ELSE IF StrLess(KeyOf(b, Head(keys)), KeyOf(a, Head(keys))) THEN FALSE
  ELSE LessBy(a, b, Tail(keys))

RECURSIVE InsertBy(_, _, _)
InsertBy(x, sorted, keys) ==
  IF Len(sorted) = 0 THEN <<x>>
  ELSE IF LessBy(x, Head(sorted), keys) THEN <<x>> \o sorted
  ELSE <<Head(sorted)>> \o InsertBy(x, Tail(sorted), keys)

\* g.sort: the files ordered by the keys, ties left in their given order.
RECURSIVE sort(_, _)
sort(fl, keys) ==
  IF Len(fl) = 0 THEN <<>>
  ELSE InsertBy(fl[Len(fl)], sort(SubSeq(fl, 1, Len(fl) - 1), keys), keys)

\* Arrange as it would be with the two sort keys given in the other order.
Arrange_NameFirst(remoteChildren) ==
  IF opts.Md5sum THEN sort(remoteChildren, <<NameKey, Md5Key>>) ELSE remoteChildren

\* stat, after the stream is drained: the order the children are walked in.
Arrange(remoteChildren) ==
  IF opts.Md5sum THEN sort(remoteChildren, <<Md5Key, NameKey>>) ELSE remoteChildren

\* ------------------------------------------------------------- stat frames

Top == stack[Len(stack)]

SetTop(fr) == [stack EXCEPT ![Len(stack)] = fr]

\* A call stat(relToRootPath, file, depth): a new frame, logged in calls.
Call(relToRootPath, id, depth, parent) ==
  /\ stack' = Append(stack, [cid |-> Len(calls) + 1, path |-> relToRootPath, file |-> id,
                             depth |-> depth, pc |-> "render", remoteChildren |-> <<>>,
                             i |-> 1, stream |-> 0])
  /\ calls' = Append(calls, [file |-> id, path |-> relToRootPath, depth |-> depth,
                             parent |-> parent, stream |-> 0, returned |-> FALSE, ret |-> Nil])

\* AfterChild as it would be if an error from a child ended the loop.
AfterChild_StopOnError(fr, val) ==
  [fr EXCEPT !.i = IF val # Nil THEN Len(fr.remoteChildren) + 1 ELSE @ + 1]

\* The frame of a caller once the call it made for a child has returned
\* val: the value is dropped and the loop moves to the next child.
AfterChild(fr, val) == [fr EXCEPT !.i = @ + 1]

\* The top call returns val: to statfn when it is the outermost call, else
\* to the loop over the children of its parent, which drops the value.
Return(val) ==
  /\ calls' = [calls EXCEPT ![Top.cid].returned = TRUE, ![Top.cid].ret = val]
  /\ IF Len(stack) = 1
       THEN /\ stack' = <<>>
            /\ fErr' = val
            /\ spc' = "check"
       ELSE /\ stack' = [SubSeq(stack, 1, Len(stack) - 1) EXCEPT
                           ![Len(stack) - 1] = AfterChild(@, val)]
            /\ UNCHANGED <<fErr, spc>>

\* ------------------------------------------------------------------ statfn

\* Record as it would be if each failure replaced the composite error.
Record_Overwrite(e, msg, from) == copyErrStatusCode(reComposeError(NoErr, msg), from)

\* statfn records a failure: the message is added to the composite error,
\* which then takes the status code of the failure.
Record(e, msg, from) == copyErrStatusCode(reComposeError(e, msg), from)

\* DisplayName as it would be if every folder were taken for the root.
DisplayName_AnyFolder(s, file) ==
  IF opts.Md5sum
    THEN IF file.IsDir THEN <<>> ELSE file.Name
    ELSE s

\* The name statfn passes to stat for a resolved source: the source itself,
\* or in checksum mode the file's name, emptied for a folder when the
\* configured path is root-like.
DisplayName(s, file) ==
  IF opts.Md5sum
    THEN IF file.IsDir /\ rootLike(opts.Path) THEN <<>> ELSE file.Name
    ELSE s

\* One turn of statfn's loop up to the call of stat: resolve the source,
\* record a failure and go on, or pick the display name and call stat.
StatfnResolve ==
  /\ spc = "loop"
  /\ si <= Len(opts.Sources)
  /\ LET s == opts.Sources[si]
         r == IF fname = "statById" THEN FindById(s) ELSE FindByPath(s)
     IN IF r.err # Nil
          THEN /\ err' = Record(err, Msg(fname, s, r.err), r.err)
               /\ si' = si + 1
               /\ src' = s
               /\ UNCHANGED <<spc, stack, calls>>
          ELSE LET name == DisplayName(s, Files[r.f])
               IN /\ src' = name
                  /\ Call(name, r.f, opts.Depth, 0)
                  /\ spc' = "call"
                  /\ UNCHANGED <<err, si>>
  /\ UNCHANGED <<fname, opts, rem, firstLine, fErr, prod, out>>

\* StatFailed as it would be if the result of stat were not looked at.
StatFailed_Never(e) == FALSE

\* The test statfn makes of what the top-level stat call returned.
StatFailed(e) == e # Nil

\* The top-level stat call has returned: record its error, next source.
StatfnCheck ==
  /\ spc = "check"
  /\ IF StatFailed(fErr)
       THEN err' = Record(err, Msg(fname, src, fErr), fErr)
       ELSE err' = err
  /\ si' = si + 1
  /\ spc' = "loop"
  /\ UNCHANGED <<fname, opts, rem, firstLine, src, fErr, stack, calls, prod, out>>

\* The loop is over: statfn returns err.
StatfnReturn ==
  /\ spc = "loop"
  /\ si > Len(opts.Sources)
  /\ spc' = "done"
  /\ UNCHANGED <<fname, opts, rem, firstLine, si, src, fErr, err, stack, calls, prod, out>>

\* -------------------------------------------------------------------- stat

\* CsvLines as it would be if the header did not depend on firstLine.
CsvLines_AlwaysHeader(cid, first, perms, file) ==
  <<CsvHeader(cid)>> \o [j \in 1..Len(perms) |-> prettyFilePermission(cid, perms[j], file)]

\* What stat writes for the file in CSV mode: the header while firstLine
\* holds, then one row for each permission.
CsvLines(cid, first, perms, file) ==
  (IF first THEN <<CsvHeader(cid)>> ELSE <<>>)
    \o [j \in 1..Len(perms) |-> prettyFilePermission(cid, perms[j], file)]

\* VerboseLines as it would be if the permissions were written before the
\* error is looked at.
VerboseLines_PermsAnyway(cid, relToRootPath, lp, file) ==
  prettyFileStat(cid, relToRootPath, file)
    \o [j \in 1..Len(lp.perms) |-> prettyPermission(cid, lp.perms[j])]

\* What stat writes for the file in verbose mode: the metadata block, and
\* the permission blocks unless listing the permissions failed.
VerboseLines(cid, relToRootPath, lp, file) ==
  prettyFileStat(cid, relToRootPath, file)
    \o (IF lp.err # Nil THEN <<>>
        ELSE [j \in 1..Len(lp.perms) |-> prettyPermission(cid, lp.perms[j])])

\* The first part of stat: render the file in the active mode.  In verbose
\* mode a failure to list the permissions is returned once the metadata
\* block is written.
StatRender ==
  /\ stack # <<>>
  /\ Top.pc = "render"
  /\ LET fr == Top
         file == Files[fr.file]
         lp == listPermissions(fr.file)
         goOn == /\ stack' = SetTop([fr EXCEPT !.pc = "depth"])
                 /\ UNCHANGED <<calls, fErr, spc>>
     IN IF opts.Md5sum
          THEN /\ out' = out \o Md5Line(fr.cid, fr.path, file)
               /\ goOn
               /\ UNCHANGED firstLine
          ELSE IF opts.CsvOutput
            THEN /\ out' = out \o CsvLines(fr.cid, firstLine, lp.perms, file)
                 /\ firstLine' = FALSE
                 /\ goOn
            ELSE /\ out' = out \o VerboseLines(fr.cid, fr.path, lp, file)
                 /\ UNCHANGED firstLine
                 /\ IF lp.err # Nil THEN Return(lp.err) ELSE goOn
  /\ UNCHANGED <<fname, opts, rem, si, src, err, prod>>

\* Expands as it would be without the test of the depth.
Expands_IgnoreDepth(file, depth) == file.IsDir

\* stat goes on to the children: there is depth left and the file is a folder.
Expands(file, depth) == depth # 0 /\ file.IsDir

\* NextDepth as it would be if the depth were never lowered.
NextDepth_Keep(depth) == depth

\* NextDepth as it would be if the depth were lowered whatever its sign.
NextDepth_Always(depth) == depth - 1

\* The depth handed to the children: one less, unless it is negative.
NextDepth(depth) == IF depth >= 1 THEN depth - 1 ELSE depth

\* g.rem.FindByParentId: a new producer for the children of the folder,
\* with nothing sent yet.
FindByParentId(id) ==
  [parent |-> id, pos |-> 0, nils |-> 0, errs |-> 0, st |-> "run"]

\* The second part of stat: return when the depth is used up or the file is
\* not a folder, else lower the depth and open the listing of the children.
StatDepth ==
  /\ stack # <<>>
  /\ Top.pc = "depth"
  /\ LET fr == Top IN
       IF ~Expands(Files[fr.file], fr.depth)
         THEN /\ Return(Nil)
              /\ UNCHANGED prod
         ELSE /\ prod' = Append(prod, FindByParentId(fr.file))
              /\ stack' = SetTop([fr EXCEPT !.depth = NextDepth(fr.depth), !.pc = "select",
                                            !.stream = Len(prod) + 1])
              /\ calls' = [calls EXCEPT ![fr.cid].stream = Len(prod) + 1]
              /\ UNCHANGED <<fErr, spc>>
  /\ UNCHANGED <<fname, opts, rem, firstLine, si, src, err, out>>

\* ---------------------------------------------------------------- producer

\* The children of a folder in the order this remote delivers them.
Delivery(id) == IF rem.rev THEN Reverse(Listing[id]) ELSE Listing[id]

\* The producer of stream k reaches "filesChan <- child" and blocks there.
ProducerSendChild(k) ==
  /\ prod[k].st = "run"
  /\ prod[k].pos < Len(Delivery(prod[k].parent))
  /\ prod' = [prod EXCEPT ![k].st = "sendChild"]
  /\ UNCHANGED <<fname, opts, rem, firstLine, spc, si, src, fErr, err, stack, calls, out>>

\* The producer of stream k reaches "errsChan <- nil" and blocks there.
ProducerSendNil(k) ==
  /\ prod[k].st = "run"
  /\ prod[k].parent = rem.nilDir
  /\ prod[k].nils < MaxNil
  /\ prod' = [prod EXCEPT ![k].st = "sendNil"]
  /\ UNCHANGED <<fname, opts, rem, firstLine, spc, si, src, fErr, err, stack, calls, out>>

\* The producer of stream k reaches "errsChan <- err" and blocks there.
ProducerSendErr(k) ==
  /\ prod[k].st = "run"
  /\ prod[k].parent = rem.failDir
  /\ prod[k].errs = 0
  /\ prod' = [prod EXCEPT ![k].st = "sendErr"]
  /\ UNCHANGED <<fname, opts, rem, firstLine, spc, si, src, fErr, err, stack, calls, out>>

\* The producer of stream k closes the data channel and ends: after the
\* last child, or after it has reported an error.
ProducerClose(k) ==
  /\ prod[k].st = "run"
  /\ prod[k].pos = Len(Delivery(prod[k].parent)) \/ prod[k].errs > 0
  /\ prod' = [prod EXCEPT ![k].st = "closed"]
  /\ UNCHANGED <<fname, opts, rem, firstLine, spc, si, src, fErr, err, stack, calls, out>>

\* ---------------------------------------------------------------- consumer

\* ErrEnds as it would be if the loop went on after an error.
ErrEnds_Never(e) == FALSE

\* ErrEnds as it would be if any value received ended the loop.
ErrEnds_Always(e) == TRUE

\* ErrEnds as it would be with the test for nil the wrong way round.
ErrEnds_OnlyNil(e) == e = Nil

\* The select loop ends with the error received.
ErrEnds(e) == e # Nil

\* Collect as it would be if each child were put in front of the others.
Collect_InFront(remoteChildren, child) == <<child>> \o remoteChildren

\* Working as it would be if the first receive ended the loop.
Working_StopAtFirst(stillHasContent) == FALSE

\* The loop variable working after a receive from childrenChan: the loop
\* goes on while the channel still has content.
Working(stillHasContent) == stillHasContent

\* remoteChildren = append(remoteChildren, child)
Collect(remoteChildren, child) == Append(remoteChildren, child)

\* select, case err := <-errsChan: the producer's send completes; a non-nil
\* error is returned at once, nil leaves the loop running.
ConsumerRecvErr ==
  /\ stack # <<>>
  /\ Top.pc = "select"
  /\ LET k == Top.stream
         e == IF prod[k].st = "sendErr" THEN ListErr(prod[k].parent) ELSE Nil
     IN /\ prod[k].st \in {"sendErr", "sendNil"}
        /\ prod' = [prod EXCEPT ![k].st = "run",
                                ![k].errs = IF e # Nil THEN @ + 1 ELSE @,
                                ![k].nils = IF e = Nil THEN @ + 1 ELSE @]
        /\ IF ErrEnds(e) THEN Return(e) ELSE UNCHANGED <<stack, calls, fErr, spc>>
  /\ UNCHANGED <<fname, opts, rem, firstLine, si, src, err, out>>

\* select, case child, stillHasContent := <-childrenChan, a child received.
ConsumerRecvChild ==
  /\ stack # <<>>
  /\ Top.pc = "select"
  /\ LET k == Top.stream IN
       /\ prod[k].st = "sendChild"
       /\ prod' = [prod EXCEPT ![k].st = "run", ![k].pos = @ + 1]
       /\ stack' = SetTop([Top EXCEPT !.remoteChildren =
                             Collect(@, Delivery(prod[k].parent)[prod[k].pos + 1]),
                           !.pc = IF Working(TRUE) THEN "select" ELSE "children"])
  /\ UNCHANGED <<fname, opts, rem, firstLine, spc, si, src, fErr, err, calls, out>>

\* select, the data channel observed closed: the loop ends and the children
\* are put in the order they will be walked in.
ConsumerRecvClosed ==
  /\ stack # <<>>
  /\ Top.pc = "select"
  /\ prod[Top.stream].st = "closed"
  /\ ~Working(FALSE)
  /\ stack' = SetTop([Top EXCEPT !.remoteChildren = Arrange(@), !.pc = "children"])
  /\ UNCHANGED <<fname, opts, rem, firstLine, spc, si, src, fErr, err, calls, prod, out>>

\* The loop over the collected children: call stat on the next one, or
\* return nil after the last.
StatChildren ==
  /\ stack # <<>>
  /\ Top.pc = "children"
  /\ LET fr == Top IN
       IF fr.i <= Len(fr.remoteChildren)
         THEN /\ Call(ChildPath(fr.path, Files[fr.remoteChildren[fr.i]].Name),
                      fr.remoteChildren[fr.i], fr.depth, fr.cid)
              /\ UNCHANGED <<fErr, spc>>
         ELSE Return(Nil)
  /\ UNCHANGED <<fname, opts, rem, firstLine, si, src, err, prod, out>>

\* ----------------------------------------------------------- specification

Next ==
  \/ StatfnResolve
  \/ StatfnCheck
  \/ StatfnReturn
  \/ StatRender
  \/ StatDepth
  \/ \E k \in 1..Len(prod) : ProducerSendChild(k)
  \/ \E k \in 1..Len(prod) : ProducerSendNil(k)
  \/ \E k \in 1..Len(prod) : ProducerSendErr(k)
  \/ \E k \in 1..Len(prod) : ProducerClose(k)
  \/ ConsumerRecvErr
  \/ ConsumerRecvChild
  \/ ConsumerRecvClosed
  \/ StatChildren

Spec == Init /\ [][Next]_vars

\* The steps of the goroutine running statfn and stat.
MainStep ==
  \/ StatfnResolve
  \/ StatfnCheck
  \/ StatfnReturn
  \/ StatRender
  \/ StatDepth
  \/ ConsumerRecvErr
  \/ ConsumerRecvChild
  \/ ConsumerRecvClosed
  \/ StatChildren

\* The steps the producer goroutine of stream k takes on its own.
ProducerStep(k) ==
  /\ k <= Len(prod)
  /\ \/ ProducerSendChild(k)
     \/ ProducerSendNil(k)
     \/ ProducerSendErr(k)
     \/ ProducerClose(k)

\* No run opens more streams than there are files.
StreamIds == 1..Cardinality(FileIds)

\* The runs in which the scheduling is looked at: those of Init in which
\* permissions can be listed, from the root-like path; neither plays a part
\* in the select loop or in the descent.
FairInit ==
  /\ Init
  /\ opts.Path = <<"/">>
  /\ rem.permFail = {}

\* The Go scheduler lets every goroutine that can run do so: the main
\* goroutine and each producer keep taking their steps while they have one.
FairSpec ==
  /\ FairInit
  /\ [][Next]_vars
  /\ WF_vars(MainStep)
  /\ \A k \in StreamIds : WF_vars(ProducerStep(k))

\* ================================================================== claims

Done == spc = "done"

Verbose == ~opts.Md5sum /\ ~opts.CsvOutput

CallIds == 1..Len(calls)

\* The calls statfn made itself, in order.
TopCalls == SelectSeq([c \in CallIds |-> c], LAMBDA c : calls[c].parent = 0)

\* The calls made by call c for its children, in order.
ChildCalls(c) == SelectSeq([d \in CallIds |-> d], LAMBDA d : calls[d].parent = c)

\* The lines written by call c itself, in order.
LinesOf(c) == SelectSeq(out, LAMBDA l : l.cid = c)

\* A source resolves when its entry point finds a file for it.
Resolves(s) ==
  IF fname = "statById" THEN s = SrcIdA ELSE s \in {SrcA, SrcS, SrcK, SrcRoot, SrcY}

\* The messages a complete run owes: walking the sources from the i-th with
\* the j-th top-level call next, one message for each source that did not
\* resolve or whose top-level call returned an error.
RECURSIVE OwedMsgs(_, _)
OwedMsgs(i, j) ==
  IF i > Len(opts.Sources) THEN <<>>
  ELSE LET s == opts.Sources[i] IN
    IF ~Resolves(s)
      THEN <<[fname |-> fname, src |-> s, err |-> ResolveErr(s)]>> \o OwedMsgs(i + 1, j)
    ELSE IF j > Len(TopCalls) THEN <<>>
    ELSE LET c == calls[TopCalls[j]] IN
      (IF c.ret # Nil THEN <<[fname |-> fname, src |-> c.path, err |-> c.ret]>> ELSE <<>>)
        \o OwedMsgs(i + 1, j + 1)

ResolvedCount == Cardinality({i \in 1..Len(opts.Sources) : Resolves(opts.Sources[i])})

\* C1: when statfn has returned, every source that resolves has had its
\* top-level stat call made and completed, whatever failed before it, and
\* the composite error holds exactly one message for each source that failed
\* to resolve or whose top-level call returned an error, in source order.
C1_EverySourceAttempted ==
  Done =>
    /\ Len(TopCalls) = ResolvedCount
    /\ \A j \in 1..Len(TopCalls) : calls[TopCalls[j]].returned
    /\ err.msgs = OwedMsgs(1, 1)

\* C1 witness: the run of sources s, bad1, bad2 is over, the call for s
\* failed after writing output and both later sources failed to resolve.
C1_Witness ==
  /\ Done
  /\ opts.Sources = <<SrcS, SrcBad1, SrcBad2>>
  /\ Len(err.msgs) = 3
  /\ err.msgs[2].src = SrcBad1
  /\ err.msgs[3].src = SrcBad2
  /\ out # <<>>

\* The stat calls made with depth budget 0.
ZeroCalls == {c \in CallIds : calls[c].depth = 0}

\* C2 as stated: a stat call with depth budget 0 opens no stream, makes no
\* call for a child and returns nil.
C2_Original ==
  \A c \in ZeroCalls :
    /\ calls[c].stream = 0
    /\ ChildCalls(c) = <<>>
    /\ calls[c].returned => calls[c].ret = Nil

\* C2 amended: a stat call with depth budget 0 opens no stream and makes no
\* call for a child; it returns nil, except in verbose mode when listing the
\* file's permissions failed, where it returns that error.
C2_DepthZero ==
  \A c \in ZeroCalls :
    /\ calls[c].stream = 0
    /\ ChildCalls(c) = <<>>
    /\ calls[c].returned =>
         calls[c].ret = IF Verbose /\ calls[c].file \in rem.permFail
                          THEN PermErr(calls[c].file) ELSE Nil

\* C2 witness: a call with budget 0 on a folder that has children returned.
C2_Witness ==
  \E c \in ZeroCalls :
    /\ calls[c].returned
    /\ calls[c].ret = Nil
    /\ Files[calls[c].file].IsDir
    /\ Listing[calls[c].file] # <<>>

Range(q) == {q[j] : j \in 1..Len(q)}

\* The files at distance d..n below a file that is itself at distance d,
\* each paired with its distance.
RECURSIVE Below(_, _, _)
Below(id, d, n) ==
  {<<id, d>>} \cup
    (IF d < n THEN UNION {Below(ch, d + 1, n) : ch \in Range(Listing[id])} ELSE {})

\* How many calls up from call c the call a is, or -1 when c was not made
\* under a.
RECURSIVE Hops(_, _)
Hops(c, a) ==
  IF c = a THEN 0
  ELSE IF calls[c].parent = 0 THEN -1
  ELSE LET h == Hops(calls[c].parent, a) IN IF h < 0 THEN -1 ELSE h + 1

Under(a) == {c \in CallIds : Hops(c, a) >= 0}

\* No listing reports an error and no permission error is returned.
NoFault == rem.failDir = "" /\ (Verbose => rem.permFail = {})

\* C3: with no listing or permission error, a completed stat call on a
\* folder with budget N > 0 has made calls for exactly the files at distance
\* 0..N below it, one call each, every call for a child with a budget one
\* below its caller's.
C3_ExactlyNLevels ==
  NoFault =>
    \A c \in CallIds :
      (calls[c].returned /\ calls[c].depth > 0 /\ Files[calls[c].file].IsDir) =>
        /\ {<<calls[d].file, Hops(d, c)>> : d \in Under(c)} = Below(calls[c].file, 0, calls[c].depth)
        /\ Cardinality(Under(c)) = Cardinality(Below(calls[c].file, 0, calls[c].depth))
        /\ \A d \in Under(c) \ {c} : calls[d].depth = calls[calls[d].parent].depth - 1

\* C3 witness: a call on folder s with budget 2 is complete; v, two levels
\* down, was reached with budget 0, and u, three levels down, has no call.
C3_Witness ==
  /\ NoFault
  /\ \E c \in CallIds :
       /\ calls[c].returned /\ calls[c].depth = 2 /\ calls[c].file = "idS"
       /\ \E d \in Under(c) : calls[d].file = "idV" /\ calls[d].depth = 0
       /\ \A d \in CallIds : calls[d].file # "idU"

\* The calls that opened a stream on which the producer's error was received.
ErrCalls == {c \in CallIds : calls[c].stream # 0 /\ prod[calls[c].stream].errs > 0}

\* C4: once a non-nil error has been received from a stream, the stat call
\* that opened it has returned that error and has called stat for none of
\* the children it had collected; from then on nothing more is received from
\* that stream.
C4_ErrorAborts ==
  /\ [](\A c \in ErrCalls :
          /\ calls[c].returned
          /\ calls[c].ret = ListErr(calls[c].file)
          /\ ChildCalls(c) = <<>>)
  /\ [][\A c \in ErrCalls :
          LET k == calls[c].stream IN
            /\ prod'[k].pos = prod[k].pos
            /\ prod'[k].nils = prod[k].nils
            /\ prod'[k].errs = prod[k].errs]_vars

\* C4 witness: a call returned the listing error after it had collected two
\* children, and the run is over.
C4_Witness ==
  /\ Done
  /\ \E c \in ErrCalls :
       /\ prod[calls[c].stream].pos = 2
       /\ calls[c].ret = ListErr(calls[c].file)

\* The calls that have finished rendering their file.
RenderedCalls ==
  {c \in CallIds : calls[c].returned \/ \E j \in 1..Len(stack) : stack[j].cid = c /\ stack[j].pc # "render"}

CsvMode == ~opts.Md5sum /\ opts.CsvOutput

Count(q, Test(_)) == Len(SelectSeq(q, Test))

Shown(c) ==
  IF calls[c].path # <<>> /\ calls[c].path[1] = "/"
    THEN SubSeq(calls[c].path, 2, Len(calls[c].path)) ELSE calls[c].path

Blanks(n) == [j \in 1..n |-> " "]

\* C6: in checksum mode every rendered call whose file has a checksum has
\* written exactly one line, the checksum (right-justified in 32 columns),
\* two blanks and its display path without a leading separator; a rendered
\* call whose file has no checksum has written nothing; so the output has as
\* many lines as rendered calls with a checksum.
C6_OneLinePerChecksum ==
  opts.Md5sum =>
    /\ \A c \in RenderedCalls :
         LET sum == Files[calls[c].file].Md5Checksum IN
           IF sum = <<>> THEN LinesOf(c) = <<>>
           ELSE /\ Len(LinesOf(c)) = 1
                /\ LinesOf(c)[1].kind = "md5"
                /\ LinesOf(c)[1].text =
                     Blanks(32 - Len(sum)) \o sum \o <<" ", " ">> \o Shown(c)
    /\ Len(out) = Cardinality({c \in RenderedCalls : Files[calls[c].file].Md5Checksum # <<>>})

\* C6 witness: a complete checksum run has visited u, a file without a
\* checksum, and written the lines of two files with one.
C6_Witness ==
  /\ opts.Md5sum
  /\ Done
  /\ \E c \in CallIds : calls[c].file = "idU"
  /\ \E c \in CallIds : calls[c].file = "idX" /\ Len(LinesOf(c)) = 1
  /\ Len(out) = 2

\* C7 as stated: no line written for a folder is a checksum line, a
\* checksum row or a Copyable row, in any mode.
C7_Original ==
  \A j \in 1..Len(out) :
    Files[calls[out[j].cid].file].IsDir =>
      /\ out[j].kind # "md5"
      /\ ~(out[j].kind = "kv" /\ out[j].key \in {"Md5Checksum", "Copyable"})

\* The frames past the select loop, walking their collected children.
Walking == {j \in 1..Len(stack) : stack[j].pc = "children"}

\* The files call c has called stat for so far, in order.
Walked(c) == [j \in 1..Len(ChildCalls(c)) |-> calls[ChildCalls(c)[j]].file]

\* The children the producer of stream k has handed over, in order.
Delivered(k) == SubSeq(Delivery(prod[k].parent), 1, prod[k].pos)

\* a comes before b by checksum, then by name.
Before(a, b) ==
  \/ StrLess(Files[a].Md5Checksum, Files[b].Md5Checksum)
  \/ /\ Files[a].Md5Checksum = Files[b].Md5Checksum
     /\ StrLess(Files[a].Name, Files[b].Name)

\* C8: in checksum mode, once a folder's stream is drained, the children it
\* walks are the delivered ones ordered by checksum, then name (the empty
\* checksum first), stat is called for them in that order, and for the
\* children x, y, z of s with checksums "b", "", "a" the order is y, z, x in
\* whichever order they arrived.
C8_SortedByChecksumThenName ==
  opts.Md5sum =>
    \A j \in Walking :
      LET fr == stack[j] IN
        /\ Range(fr.remoteChildren) = Range(Delivered(fr.stream))
        /\ Len(fr.remoteChildren) = Len(Delivered(fr.stream))
        /\ \A a, b \in 1..Len(fr.remoteChildren) :
             a < b => Before(fr.remoteChildren[a], fr.remoteChildren[b])
        /\ Walked(fr.cid) = SubSeq(fr.remoteChildren, 1, Len(Walked(fr.cid)))
        /\ Len(Walked(fr.cid)) \in {fr.i - 1, fr.i}
        /\ (fr.file = "idS" /\ Len(fr.remoteChildren) = 3) =>
             fr.remoteChildren = <<"idY", "idZ", "idX">>

\* C8 witness: in checksum mode the children of s arrived as z, y, x and stat
\* has been called for all three.
C8_Witness ==
  /\ opts.Md5sum
  /\ rem.rev
  /\ \E j \in Walking :
       /\ stack[j].file = "idS"
       /\ Delivered(stack[j].stream) = <<"idZ", "idY", "idX">>
       /\ Walked(stack[j].cid) = <<"idY", "idZ", "idX">>

\* C9: outside checksum mode the children a folder has collected are at
\* every moment exactly those its producer has handed over, in that order,
\* and stat is called for them in that same order.
C9_DeliveryOrderKept ==
  ~opts.Md5sum =>
    \A j \in 1..Len(stack) :
      LET fr == stack[j] IN
        fr.pc \in {"select", "children"} =>
          /\ fr.remoteChildren = Delivered(fr.stream)
          /\ Walked(fr.cid) = SubSeq(fr.remoteChildren, 1, Len(Walked(fr.cid)))
          /\ Len(Walked(fr.cid)) \in {fr.i - 1, fr.i}

\* C9 witness: outside checksum mode the children of s arrived as z, y, x
\* and stat has been called for all three in that order.
C9_Witness ==
  /\ ~opts.Md5sum
  /\ \E j \in Walking :
       /\ stack[j].file = "idS"
       /\ Delivered(stack[j].stream) = <<"idZ", "idY", "idX">>
       /\ Walked(stack[j].cid) = <<"idZ", "idY", "idX">>

\* The run of the end-to-end example: checksum mode, the one source /a,
\* depth 1, a configured path that is not root-like.
ExampleRun ==
  /\ opts.Md5sum
  /\ fname = "stat"
  /\ opts.Sources = <<SrcA>>
  /\ opts.Depth = 1
  /\ ~rootLike(opts.Path)

\* C10: the complete example run has written exactly one line, the one of b
\* with the checksum deadbeef and the path a/b, none for a, and statfn
\* returns no error.
C10_EndToEnd ==
  (ExampleRun /\ Done) =>
    /\ Len(out) = 1
    /\ calls[out[1].cid].file = "idB"
    /\ out[1].text = Blanks(24) \o <<"d", "e", "a", "d", "b", "e", "e", "f">>
                       \o <<" ", " ">> \o <<"a", "/", "b">>
    /\ err = NoErr

\* C10 witness: the example run is complete, with stat called for a and b.
C10_Witness ==
  /\ ExampleRun
  /\ Done
  /\ Len(calls) = 2
  /\ calls[1].file = "idA"
  /\ calls[2].file = "idB"

\* The calls on a file whose permissions cannot be listed, once rendered.
PermFailCalls == {c \in RenderedCalls : calls[c].file \in rem.permFail}

\* The frame of call c is still at the test of the depth.
AtDepthTest(c) == \E j \in 1..Len(stack) : stack[j].cid = c /\ stack[j].pc = "depth"

\* C11: when listing a file's permissions fails, in verbose mode the call
\* has written the metadata block and nothing else, opened no stream, called
\* stat for no child and returned the permission error; in CSV mode the call
\* does not return that error, and past the test of the depth it has opened
\* the stream of a folder with depth left.
C11_PermissionFailure ==
  \A c \in PermFailCalls :
    /\ Verbose =>
         /\ calls[c].returned
         /\ calls[c].ret = PermErr(calls[c].file)
         /\ LinesOf(c) # <<>>
         /\ LinesOf(c)[1].kind = "path"
         /\ \A j \in 2..Len(LinesOf(c)) : LinesOf(c)[j].kind = "kv"
         /\ calls[c].stream = 0
         /\ ChildCalls(c) = <<>>
    /\ CsvMode =>
         /\ calls[c].returned => calls[c].ret.kind # "perm"
         /\ (~AtDepthTest(c) /\ calls[c].depth # 0 /\ Files[calls[c].file].IsDir)
              => calls[c].stream # 0

\* C11 witness: the permissions of folder s, which has entries and children,
\* cannot be listed; in verbose mode its call returned the error, or in CSV
\* mode stat has been called for all three of its children.
C11_Witness ==
  /\ rem.permFail = {"idS"}
  /\ opts.Depth # 0
  /\ \E c \in PermFailCalls :
       \/ Verbose /\ calls[c].returned /\ Len(LinesOf(c)) > 14
       \/ CsvMode /\ Len(ChildCalls(c)) = 3

\* The calls whose stream was drained to its close with no error received.
DrainedCalls == {c \in CallIds : calls[c].stream # 0 /\ prod[calls[c].stream].errs = 0
                                 /\ ~\E j \in 1..Len(stack) : stack[j].cid = c /\ stack[j].pc = "select"}

\* C12: a call that drained its stream without error returns only nil, and
\* when it returns it has called stat once for each child delivered,
\* whatever those calls returned.
C12_ChildErrorsDropped ==
  \A c \in DrainedCalls :
    calls[c].returned =>
      /\ calls[c].ret = Nil
      /\ Len(Walked(c)) = Len(Delivery(calls[c].file))
      /\ Range(Walked(c)) = Range(Delivery(calls[c].file))
      /\ \A d \in Range(ChildCalls(c)) : calls[d].returned

\* C12 witness: the call for s returned nil after the call for its second
\* child y returned an error and the call for its third child z was made.
C12_Witness ==
  \E c \in DrainedCalls :
    /\ calls[c].returned /\ calls[c].ret = Nil /\ calls[c].file = "idS"
    /\ Len(ChildCalls(c)) = 3
    /\ calls[ChildCalls(c)[2]].file = "idY"
    /\ calls[ChildCalls(c)[2]].ret # Nil
    /\ calls[ChildCalls(c)[3]].file = "idZ"

\* C13: when statfn returns, its error is non-nil exactly when some source
\* did not resolve or some top-level stat call returned an error.
C13_ErrorIffSomeFailure ==
  Done =>
    (err.msgs # <<>>
       <=> \/ \E i \in 1..Len(opts.Sources) : ~Resolves(opts.Sources[i])
           \/ \E j \in 1..Len(TopCalls) : calls[TopCalls[j]].ret # Nil)

\* C13 witness: every source resolved and the one failure of the run is the
\* top-level stat call of the first source; statfn returns an error.
C13_Witness ==
  /\ Done
  /\ opts.Sources = <<SrcS, SrcA>>
  /\ calls[TopCalls[1]].ret # Nil
  /\ calls[TopCalls[2]].ret = Nil
  /\ Len(err.msgs) = 1

\* Some stat call is in its select loop (only the innermost can be).  Two
\* loops are never entered without a step outside any loop in between, so a
\* run that is outside the loops again and again is stuck in none.
InSelect == stack # <<>> /\ Top.pc = "select"

\* A nil has just been received from the error channel by the top frame.
NilReceived ==
  /\ stack # <<>> /\ Top.pc = "select"
  /\ prod[Top.stream].st = "sendNil"
  /\ prod'[Top.stream].st = "run"

\* C14: with the scheduler fair to the consumer and to the producers, every
\* select loop entered is left; a nil received from the error channel leaves
\* the frame in the loop with the same collected children; and the loop of
\* a stream that only sent children and nils is left with exactly the
\* delivered children collected, all the children of the folder.
C14_LoopTerminates ==
  /\ []<>(~InSelect)
  /\ [][NilReceived => stack' = stack]_vars
  /\ [](\A j \in 1..Len(stack) :
          (stack[j].pc = "children" /\ prod[stack[j].stream].errs = 0) =>
            /\ Range(stack[j].remoteChildren) = Range(Delivered(stack[j].stream))
            /\ Len(stack[j].remoteChildren) = Len(Delivery(stack[j].file))
            /\ prod[stack[j].stream].pos = Len(Delivery(stack[j].file)))

\* C14 witness: the loop over the stream of s ended after the producer sent
\* a nil and three children, all three collected.
C14_Witness ==
  \E j \in 1..Len(stack) :
    /\ stack[j].pc = "children" /\ stack[j].file = "idS"
    /\ prod[stack[j].stream].nils = 1
    /\ prod[stack[j].stream].errs = 0
    /\ Len(stack[j].remoteChildren) = 3

\* The calls made and not yet returned.
Active == {c \in CallIds : ~calls[c].returned}

\* C15: the calls in progress are those of the stack, each the caller of
\* the next, the outermost made by statfn while it waits in its call; every
\* frame but the innermost is walking its children, its own data channel
\* seen closed before; so at most one frame is in a select loop, a call for
\* a child or a source starts only when all earlier ones have returned.
C15_OneStreamAtATime ==
  /\ Active = {stack[j].cid : j \in 1..Len(stack)}
  /\ Cardinality(Active) = Len(stack)
  /\ (stack # <<>>) <=> (spc = "call")
  /\ \A j \in 1..Len(stack) :
       /\ calls[stack[j].cid].parent = IF j = 1 THEN 0 ELSE stack[j - 1].cid
       /\ j < Len(stack) => stack[j].pc = "children"
       /\ stack[j].pc = "children" => prod[stack[j].stream].st = "closed"
  /\ Cardinality({j \in 1..Len(stack) : stack[j].pc = "select"}) <= 1
  /\ \A c, d \in CallIds :
       (c < d /\ calls[c].parent = calls[d].parent) => calls[c].returned

\* C15 witness: three calls are nested under s, the innermost in its select
\* loop, after the call for the first child of s has returned.
C15_Witness ==
  /\ Len(stack) = 3
  /\ stack[3].pc = "select"
  /\ stack[1].file = "idS"
  /\ stack[1].i = 2
  /\ calls[ChildCalls(stack[1].cid)[1]].returned

\* The calls made by stat for a child.
InnerCalls == {d \in CallIds : calls[d].parent # 0}

\* The path of the parent, a separator and the name of the child.
Joined(d) ==
  calls[calls[d].parent].path \o <<"/">> \o Files[calls[d].file].Name

\* Every line of call c comes before every line of call d.
LinesBefore(c, d) ==
  \A x, y \in 1..Len(out) : (out[x].cid = c /\ out[y].cid = d) => x < y

\* A call renders before it opens a stream or calls stat for a child.
RenderFirst ==
  \A c \in CallIds \ RenderedCalls : calls[c].stream = 0 /\ ChildCalls(c) = <<>>

\* C16 as stated: a call renders first, its lines precede the lines of every
\* call made under it, and the path of a call for a child is the path of
\* its caller, one separator and the child's name.
C16_Original ==
  /\ RenderFirst
  /\ \A d \in InnerCalls :
       /\ \A a \in CallIds : (a # d /\ Hops(d, a) > 0) => LinesBefore(a, d)
       /\ calls[d].path = Joined(d)

\* C16 amended: a call renders first, its lines precede the lines of every
\* call made under it, and the path of a call for a child is filepath.Clean
\* of the path of its caller, one separator and the child's name; so it has
\* no doubled separator, and under the path / the child k has the path /k.
C16_PreOrderCleanPath ==
  /\ RenderFirst
  /\ \A d \in InnerCalls :
       /\ \A a \in CallIds : (a # d /\ Hops(d, a) > 0) => LinesBefore(a, d)
       /\ calls[d].path = Clean(Joined(d))
       /\ \A x \in 1..(Len(calls[d].path) - 1) :
            ~(calls[d].path[x] = "/" /\ calls[d].path[x + 1] = "/")
       /\ (calls[calls[d].parent].path = <<"/">> /\ calls[d].file = "idK")
            => calls[d].path = <<"/", "k">>

\* C16 witness: under the source / the call for k was made with the path
\* /k, and the lines of both calls are written.
C16_Witness ==
  \E d \in InnerCalls :
    /\ calls[calls[d].parent].path = <<"/">>
    /\ calls[d].path = <<"/", "k">>
    /\ LinesOf(d) # <<>>
    /\ LinesOf(calls[d].parent) # <<>>

\* Every file below a file through folders, the file included.
Reachable(id) == {fd[1] : fd \in Below(id, 0, Cardinality(FileIds))}

\* C17: with a negative -depth option every stat call, recursive ones
\* included, is made with that same value; when no listing reports an error
\* the run ends, and by then each top-level call has under it exactly one
\* call for each file reachable from its file.
C17_UnlimitedDepth ==
  /\ [](opts.Depth < 0 => \A c \in CallIds : calls[c].depth = opts.Depth)
  /\ []((opts.Depth < 0 /\ rem.failDir = "" /\ Done) =>
          \A j \in 1..Len(TopCalls) :
            LET t == TopCalls[j] IN
              /\ {calls[d].file : d \in Under(t)} = Reachable(calls[t].file)
              /\ Cardinality(Under(t)) = Cardinality(Reachable(calls[t].file)))
  /\ (opts.Depth < 0 /\ rem.failDir = "") => <>Done

\* C17 witness: a run with depth -1 and no listing error is over; u, three
\* levels below s, was reached with depth -1.
C17_Witness ==
  /\ opts.Depth = -1
  /\ rem.failDir = ""
  /\ Done
  /\ \E c \in CallIds : calls[c].file = "idU" /\ calls[c].depth = -1

\* The sources that resolve, in order: the j-th is the one of the j-th
\* top-level call.
ResolvedSources == SelectSeq(opts.Sources, Resolves)

\* The file is the root of the store or lies directly in it.
AtRoot(id) == id \in {"idR", "idA", "idS", "idK"}

\* C18 as stated: the path of a top-level call is, in checksum mode, empty
\* for a folder at the root of the store and the file's name otherwise, and
\* outside checksum mode the source string.
C18_Original ==
  \A j \in 1..Len(TopCalls) :
    LET c == calls[TopCalls[j]] IN
      c.path = IF opts.Md5sum
                 THEN IF Files[c.file].IsDir /\ AtRoot(c.file) THEN <<>> ELSE Files[c.file].Name
                 ELSE ResolvedSources[j]

\* The calls that opened a stream.
StreamCalls == {c \in CallIds : calls[c].stream # 0}

\* C19: while a producer waits to hand over its error the data channel is
\* not closed and the stat call that opened the stream is still in its
\* select loop; once the error is handed over that call has returned it,
\* also when the producer closes the data channel afterwards; so a call that
\* saw the channel closed or returned nil had no error sent to it.
C19_ErrorNeverLost ==
  \A c \in StreamCalls :
    LET k == calls[c].stream IN
      /\ prod[k].st = "sendErr" =>
           \E j \in 1..Len(stack) : stack[j].cid = c /\ stack[j].pc = "select"
      /\ prod[k].errs > 0 => (calls[c].returned /\ calls[c].ret = ListErr(calls[c].file))
      /\ ((calls[c].returned /\ calls[c].ret = Nil)
            \/ \E j \in 1..Len(stack) : stack[j].cid = c /\ stack[j].pc = "children")
           => (prod[k].errs = 0 /\ prod[k].st = "closed")

\* C19 witness: a producer handed over two children and then its error,
\* closed the data channel, and the call returned the error.
C19_Witness ==
  \E c \in StreamCalls :
    /\ prod[calls[c].stream].st = "closed"
    /\ prod[calls[c].stream].errs = 1
    /\ prod[calls[c].stream].pos = 2
    /\ calls[c].ret = ListErr(calls[c].file)

\* The producers blocked in a send on a stream whose error was received.
Orphans == {k \in 1..Len(prod) : prod[k].errs > 0 /\ prod[k].st \in {"sendChild", "sendNil", "sendErr"}}

\* C20: a producer that starts another send after its error was received
\* never completes it: from then on nothing about it changes.
C20_ProducerStaysBlocked ==
  [][\A k \in Orphans : prod'[k] = prod[k]]_vars

\* C20 witness: the run is over, the call for s has returned the listing
\* error, and the producer of its stream is blocked sending a child.
C20_Witness ==
  /\ Done
  /\ \E c \in StreamCalls :
       /\ calls[c].returned
       /\ calls[c].ret = ListErr(calls[c].file)
       /\ calls[c].stream \in Orphans
       /\ prod[calls[c].stream].st = "sendChild"

====
